---- MODULE Spec2Model ----
(***************************************************************************)
(* Model of the retrieval engine of Apocrypha_MVP:                         *)
(*   src/document_search.py  scan_dummy_data, _tokenize, search_files      *)
(*   src/app.py              the Streamlit script that caches the scan and *)
(*                           searches after every prompt                   *)
(*                                                                         *)
(* Text is a sequence of ASCII code points, so that lower(), isalnum(),    *)
(* the substring test and the lexicographic order of Python strings are    *)
(* computed and not assumed.                                               *)
(***************************************************************************)
EXTENDS Integers, Sequences, FiniteSets, TLC

VARIABLES
    records,      \* the list handed to search_files
    query,        \* the query of the last search_files call
    k,            \* the k of the last search_files call
    run,          \* that call's local list `scored` at its return, and its result
    called,       \* TRUE once search_files has been called
    dirKind,      \* what "dummy_data" and "sample_data" are in the working directory
    tree,         \* the entries root_path.glob("**/*") finds, by path
    rootArg,      \* the root argument of the last scan_dummy_data call
    scanOut,      \* how that call ended, the root it resolved and the list it returned
    cached,       \* "records" in st.session_state
    email_input,  \* st.session_state.email_input: "None" or ""
    other_input,  \* st.session_state.other_input: "None" or ""
    nmsg,         \* len(st.session_state.messages), 0 before the key exists
    scanCalls,    \* scan_dummy_data calls of the session
    answered,     \* prompts whose completion call returned
    searches,     \* search_files calls of the session
    runs          \* script runs of the session

appVars == <<cached, email_input, other_input, nmsg, scanCalls, answered, searches, runs>>

vars == <<records, query, k, run, called, dirKind, tree, rootArg, scanOut, appVars>>

\* what the last search_files call returned
result == run.result

\* the local list `scored` of that call when it returned
scored == run.scored

\* ------------------------------------------------------------------ bounds
MaxRecords == 3
MaxK == 2
MaxEntries == 3
MaxRuns == 4

\* -------------------------------------------------------------------- text
\* "Invoice_2023.pdf"
N_Invoice2023 == <<73, 110, 118, 111, 105, 99, 101, 95, 50, 48, 50, 51, 46, 112, 100, 102>>
\* "invoice_draft.txt"
N_InvoiceDraft == <<105, 110, 118, 111, 105, 99, 101, 95, 100, 114, 97, 102, 116, 46, 116, 120, 116>>
\* "report.csv"
N_Report == <<114, 101, 112, 111, 114, 116, 46, 99, 115, 118>>
\* "invoice_final.pdf"
N_InvoiceFinal == <<105, 110, 118, 111, 105, 99, 101, 95, 102, 105, 110, 97, 108, 46, 112, 100, 102>>

NamePool == {N_Invoice2023, N_InvoiceDraft, N_Report, N_InvoiceFinal}

\* ""
Q_Empty == <<>>
\* " _"   (not empty, but without any token)
Q_Blank == <<32, 95>>
\* "invoice"
Q_Invoice == <<105, 110, 118, 111, 105, 99, 101>>
\* "inv"
Q_Inv == <<105, 110, 118>>
\* "Inv Report 2023-pdf"
Q_InvReport == <<73, 110, 118, 32, 82, 101, 112, 111, 114, 116, 32, 50, 48, 50, 51, 45, 112, 100, 102>>

QueryPool == {Q_Empty, Q_Blank, Q_Invoice, Q_Inv, Q_InvReport}

\* str.lower() on one ASCII character
LowerCh(c) == IF c >= 65 /\ c <= 90 THEN c + 32 ELSE c

\* str.lower()
Lower(s) == [i \in 1..Len(s) |-> LowerCh(s[i])]

\* ch.isalnum() on one ASCII character
IsAlnum(c) == \/ (c >= 48 /\ c <= 57)
              \/ (c >= 65 /\ c <= 90)
              \/ (c >= 97 /\ c <= 122)

\* ''.join(ch if ch.isalnum() else ' ' for ch in text.lower())
Blanked(s) == [i \in 1..Len(s) |-> IF IsAlnum(LowerCh(s[i])) THEN LowerCh(s[i]) ELSE 32]

\* str.split(): the maximal runs of non-blank characters, left to right
RECURSIVE SplitFrom(_, _, _)
SplitFrom(s, i, cur) ==
    IF i > Len(s)
    THEN IF cur = <<>> THEN <<>> ELSE <<cur>>
    ELSE IF s[i] = 32
         THEN IF cur = <<>> THEN SplitFrom(s, i + 1, <<>>)
                            ELSE <<cur>> \o SplitFrom(s, i + 1, <<>>)
         ELSE SplitFrom(s, i + 1, Append(cur, s[i]))

\* a plausible slip: text.lower().split(), punctuation kept inside the tokens
Tokenize_KeepPunct(text) == SplitFrom(Lower(text), 1, <<>>)

\* _tokenize(text)
Tokenize(text) == SplitFrom(Blanked(text), 1, <<>>)

\* set(_tokenize(text))
TokenSet(text) == LET toks == Tokenize(text) IN {toks[i] : i \in 1..Len(toks)}

\* t in s   (Python substring test; the empty string is in every string)
IsSubstring(t, s) ==
    \E i \in 0..(Len(s) - Len(t)) : SubSeq(s, i + 1, i + Len(t)) = t

\* a < b for Python strings: code point by code point, a proper prefix first
RECURSIVE StrLess(_, _)
StrLess(a, b) ==
    IF b = <<>> THEN FALSE
    ELSE IF a = <<>> THEN TRUE
    ELSE IF Head(a) # Head(b) THEN Head(a) < Head(b)
    ELSE StrLess(Tail(a), Tail(b))

\* ----------------------------------------------------------------- matcher
\* A record is [path |-> canonical path, name |-> base name]; ext, size_kb and
\* modified_iso are never read by search_files and are left out.

\* len(q_tokens & name_tokens)
TrueOverlap(q_tokens, rec) == Cardinality(q_tokens \cap TokenSet(rec.name))

\* any(t in rec.get("name", "").lower() for t in q_tokens)
SubstringHit(q_tokens, rec) ==
    LET low == Lower(rec.name) IN \E t \in q_tokens : IsSubstring(t, low)

\* a plausible slip: the substring boost worth two tokens instead of one
Overlap_Boost2(q_tokens, rec) ==
    LET overlap == TrueOverlap(q_tokens, rec)
    IN  IF overlap = 0 /\ SubstringHit(q_tokens, rec) THEN 2 ELSE overlap

\* the overlap of one record after the substring fallback
Overlap(q_tokens, rec) ==
    LET overlap == TrueOverlap(q_tokens, rec)
    IN  IF overlap = 0 /\ SubstringHit(q_tokens, rec) THEN 1 ELSE overlap

\* if overlap > 0: scored.append(...)
Keep(overlap) == overlap > 0

\* the loop building `scored`: <<overlap, rec>> for the kept records, in input order
RECURSIVE Scored(_, _)
Scored(q_tokens, recs) ==
    IF recs = <<>> THEN <<>>
    ELSE LET o == Overlap(q_tokens, Head(recs))
         IN  (IF Keep(o) THEN << <<o, Head(recs)>> >> ELSE <<>>)
             \o Scored(q_tokens, Tail(recs))

\* a plausible slip: the name left out of the sort key
KeyLess_NoTieBreak(a, b) == a[1] > b[1]

\* a plausible slip: the overlap ascending (key x[0] instead of -x[0])
KeyLess_Ascending(a, b) ==
    \/ a[1] < b[1]
    \/ a[1] = b[1] /\ StrLess(a[2].name, b[2].name)

\* key(a) < key(b) for the key (-x[0], x[1].get("name", ""))
KeyLess(a, b) ==
    \/ a[1] > b[1]
    \/ a[1] = b[1] /\ StrLess(a[2].name, b[2].name)

\* list.sort is stable: x goes behind every element whose key is not greater
RECURSIVE InsertSorted(_, _)
InsertSorted(x, s) ==
    IF s = <<>> THEN <<x>>
    ELSE IF KeyLess(x, Head(s)) THEN <<x>> \o s
    ELSE <<Head(s)>> \o InsertSorted(x, Tail(s))

RECURSIVE SortFrom(_, _)
SortFrom(s, acc) ==
    IF s = <<>> THEN acc ELSE SortFrom(Tail(s), InsertSorted(Head(s), acc))

\* scored.sort(key=lambda x: (-x[0], x[1].get("name", "")))
SortScored(s) == SortFrom(s, <<>>)

\* a plausible slip: off by one in the truncation (scored[:k+1])
Slice_OffByOne(s, n) == SubSeq(s, 1, IF n + 1 < Len(s) THEN n + 1 ELSE Len(s))

\* s[:n] of Python: a negative n counts from the end
Slice(s, n) ==
    IF n >= 0
    THEN SubSeq(s, 1, IF n < Len(s) THEN n ELSE Len(s))
    ELSE SubSeq(s, 1, IF Len(s) + n > 0 THEN Len(s) + n ELSE 0)

\* [rec for _, rec in ...]
Project(s) == [i \in 1..Len(s) |-> s[i][2]]

\* One run of search_files(query, records, k): the local `scored` when the
\* function returns (the early return leaves before anything is appended) and
\* the value returned.
SearchRun(q, recs, n) ==
    IF q = <<>> \/ recs = <<>>
    THEN [scored |-> <<>>, result |-> <<>>]
    ELSE LET sorted == SortScored(Scored(TokenSet(q), recs))
         IN  [scored |-> sorted, result |-> Project(Slice(sorted, n))]

\* search_files(query, records, k)
search_files(q, recs, n) == SearchRun(q, recs, n).result

\* ----------------------------------------------------------------- scanner
Dirs == {"dummy_data", "sample_data"}

DirKinds == {"absent", "file", "dir"}

\* What the scan meets at one path under the root:
\*   "absent"     glob does not yield the path
\*   "other"      entry.is_file() is False: a directory, a broken symlink, an
\*                entry that vanished (pathlib swallows ENOENT, ENOTDIR, ELOOP)
\*   "denied"     entry.is_file() raises PermissionError: the stat behind it
\*                fails with EACCES, which pathlib re-raises (before Python
\*                3.14; from 3.14 on the entry is an "other")
\*   "vanishing"  entry.is_file() is True, then entry.stat() raises OSError
\*   "file"       a regular file or a symlink to one; `real` is the path
\*                entry.resolve() gives, the entry's own unless it is a symlink
EntryStates ==
    {[kind |-> kd, real |-> 0] : kd \in {"absent", "other", "denied", "vanishing"}}
    \cup {[kind |-> "file", real |-> r] : r \in 1..MaxEntries}

\* a symlink leads to a regular file of the tree
Trees ==
    {t \in [1..MaxEntries -> EntryStates] :
        \A p \in 1..MaxEntries :
            t[p].kind = "file" =>
                (t[t[p].real].kind = "file" /\ t[t[p].real].real = t[p].real)}

NoTree == [p \in 1..MaxEntries |-> [kind |-> "absent", real |-> 0]]

\* the base names of the paths 1, 2, ..., the paths being numbered in their order
PathNames == <<N_Invoice2023, N_InvoiceDraft, N_InvoiceFinal, N_Report>>

\* entry.name
EntryName(p) == IF p <= Len(PathNames) THEN PathNames[p] ELSE N_Report

\* root_path.glob("**/*"): the paths found, in no particular order
Glob(t) == {p \in DOMAIN t : t[p].kind # "absent"}

\* sorted(...) of a set of paths
RECURSIVE Sorted(_)
Sorted(S) ==
    IF S = {} THEN <<>>
    ELSE LET least == CHOOSE p \in S : \A other \in S : p <= other
         IN  <<least>> \o Sorted(S \ {least})

\* a plausible slip: sample_data preferred over dummy_data
default_root_PreferSample(kinds) ==
    IF kinds["sample_data"] = "dir" THEN "sample_data" ELSE "dummy_data"

\* _default_root(): cand.exists() and cand.is_dir(), else the fallback if it is
\* a directory, else cand again
default_root(kinds) ==
    IF kinds["dummy_data"] = "dir" THEN "dummy_data"
    ELSE IF kinds["sample_data"] = "dir" THEN "sample_data"
    ELSE "dummy_data"

\* Path(root) if root else _default_root(); "" stands for None and for ""
RootPath(root, kinds) == IF root # "" THEN root ELSE default_root(kinds)

\* the for loop over the sorted entries, `acc` being `records` so far; an
\* exception of is_file() is raised outside the try and ends the call
RECURSIVE ScanLoop(_, _, _)
ScanLoop(paths, t, acc) ==
    IF paths = <<>> THEN [status |-> "returned", records |-> acc]
    ELSE LET p == Head(paths)
         IN  IF t[p].kind = "denied"
             THEN [status |-> "raised", records |-> <<>>]
             ELSE IF t[p].kind = "file"
             THEN ScanLoop(Tail(paths), t,
                           Append(acc, [path |-> t[p].real, name |-> EntryName(p)]))
             ELSE ScanLoop(Tail(paths), t, acc)

\* scan_dummy_data(root)
scan_dummy_data(root, kinds, t) ==
    LET root_path == RootPath(root, kinds)
    IN  IF kinds[root_path] # "dir"
        THEN [status |-> "returned", root |-> root_path, records |-> <<>>]
        ELSE LET out == ScanLoop(Sorted(Glob(t)), t, <<>>)
             IN  [status |-> out.status, root |-> root_path, records |-> out.records]

NotScanned == [status |-> "none", root |-> "", records |-> <<>>]

\* the matcher's variables while the scanner is exercised
SearchIdle ==
    /\ records = <<>>
    /\ query = Q_Empty
    /\ k = 0
    /\ run = [scored |-> <<>>, result |-> <<>>]
    /\ called = FALSE

\* the scanner's variables while the matcher is exercised
ScanIdle ==
    /\ dirKind = [d \in Dirs |-> "absent"]
    /\ tree = NoTree
    /\ rootArg = ""
    /\ scanOut = NotScanned

\* the session before the script has run
AppIdle ==
    /\ cached = FALSE
    /\ email_input = "None"
    /\ other_input = "None"
    /\ nmsg = 0
    /\ scanCalls = 0
    /\ answered = 0
    /\ searches = 0
    /\ runs = 0

InitScan ==
    /\ SearchIdle
    /\ AppIdle
    /\ dirKind \in [Dirs -> DirKinds]
    /\ tree \in Trees
    /\ rootArg = ""
    /\ scanOut = NotScanned

\* one call scan_dummy_data(root)
Scan(root) ==
    /\ rootArg' = root
    /\ scanOut' = scan_dummy_data(root, dirKind, tree)
    /\ UNCHANGED <<records, query, k, run, called, dirKind, tree, appVars>>

ScanCall == \E root \in {""} \cup Dirs : Scan(root)

NextScan == ScanCall

SpecScan == InitScan /\ [][NextScan]_vars

\* ------------------------------------------------- the matcher, exercised
NameLists == UNION {[1..n -> NamePool] : n \in 0..MaxRecords}

\* the record list of a scan whose files carry the names `names`
RecordsOf(names) == [i \in 1..Len(names) |-> [path |-> i, name |-> names[i]]]

KValues == (0 - 1)..MaxK

InitSearch ==
    /\ \E names \in NameLists : records = RecordsOf(names)
    /\ query = Q_Empty
    /\ k = 0
    /\ run = [scored |-> <<>>, result |-> <<>>]
    /\ called = FALSE
    /\ ScanIdle
    /\ AppIdle

\* a plausible slip: the caller's list sorted in place (records.sort(...))
RECURSIVE ByName(_, _)
ByName(recs, acc) ==
    IF recs = <<>> THEN acc
    ELSE ByName(Tail(recs),
                LET x == Head(recs)
                    i == Cardinality({j \in 1..Len(acc) : ~StrLess(x.name, acc[j].name)})
                IN  SubSeq(acc, 1, i) \o <<x>> \o SubSeq(acc, i + 1, Len(acc)))

Search_SortsInput(q, n) ==
    /\ query' = q
    /\ k' = n
    /\ run' = SearchRun(q, ByName(records, <<>>), n)
    /\ called' = TRUE
    /\ records' = ByName(records, <<>>)
    /\ UNCHANGED <<dirKind, tree, rootArg, scanOut, appVars>>

\* one call search_files(q, records, n); the list is passed by reference and
\* the function assigns to nothing but its locals
Search(q, n) ==
    /\ query' = q
    /\ k' = n
    /\ run' = SearchRun(q, records, n)
    /\ called' = TRUE
    /\ UNCHANGED <<records, dirKind, tree, rootArg, scanOut, appVars>>

SearchCall == \E q \in QueryPool, n \in KValues : Search(q, n)

NextSearch == SearchCall

SpecSearch == InitSearch /\ [][NextSearch]_vars

\* --------------------------------------------------------------------- app
\* One action is one run of the script app.py from its first line, started by
\* the event named; st.rerun() restarts the script with no widget set, and that
\* second pass changes nothing the first has not changed.

\* k=5 of the search_files call
AppK == 5

\* the trees the session is exercised on: plain files, some of them unreadable
AppTrees ==
    {t \in Trees : \A p \in 1..MaxEntries :
        t[p].kind = "denied" \/ (t[p].kind = "file" /\ t[p].real = p)}

\* st.chat_input returns no empty string
Prompts == QueryPool \ {Q_Empty}

InitApp ==
    /\ SearchIdle
    /\ AppIdle
    /\ dirKind \in {[dummy_data |-> "absent", sample_data |-> sk] : sk \in {"absent", "dir"}}
    /\ tree \in AppTrees
    /\ rootArg = ""
    /\ scanOut = NotScanned

\* the scan of this run, if the session has no records yet
ThisScan == scan_dummy_data("sample_data", dirKind, tree)

\* lines 12-48: the keys of st.session_state set when missing; the scan runs
\* when "records" is missing and its result is stored only if it returns
Prologue ==
    /\ runs < MaxRuns
    /\ runs' = runs + 1
    /\ UNCHANGED <<dirKind, tree>>
    /\ IF cached
       THEN UNCHANGED <<cached, records, scanCalls, rootArg, scanOut>>
       ELSE /\ scanCalls' = scanCalls + 1
            /\ rootArg' = "sample_data"
            /\ scanOut' = ThisScan
            /\ cached' = (ThisScan.status = "returned")
            /\ records' = IF ThisScan.status = "returned" THEN ThisScan.records ELSE records

\* len(messages) once lines 15-38 have run
Messages == IF nmsg = 0 THEN 1 ELSE nmsg

\* a run that calls neither the completion nor search_files
NoSearch == UNCHANGED <<query, k, run, called, answered, searches>>

\* a run no widget started: the first of the session, or a rerun asked for
RunPlain ==
    /\ Prologue
    /\ nmsg' = Messages
    /\ NoSearch
    /\ UNCHANGED <<email_input, other_input>>

\* the Email button: lines 65-67
RunEmailBtn ==
    /\ cached
    /\ Prologue
    /\ email_input' = ""
    /\ nmsg' = Messages
    /\ NoSearch
    /\ UNCHANGED other_input

\* the Create Report button: lines 70-77
RunReportBtn ==
    /\ cached
    /\ Prologue
    /\ nmsg' = Messages + 2
    /\ NoSearch
    /\ UNCHANGED <<email_input, other_input>>

\* the Other button: lines 80-82
RunOtherBtn ==
    /\ cached
    /\ Prologue
    /\ other_input' = ""
    /\ nmsg' = Messages
    /\ NoSearch
    /\ UNCHANGED email_input

\* the Send button, shown while email_input is not None: lines 85-97
RunSendEmail(address) ==
    /\ cached
    /\ email_input # "None"
    /\ Prologue
    /\ IF address
       THEN nmsg' = Messages + 1 /\ email_input' = "None"
       ELSE nmsg' = Messages /\ UNCHANGED email_input
    /\ NoSearch
    /\ UNCHANGED other_input

\* the Submit button, shown while other_input is not None: lines 100-107
RunSubmitCustom(custom_action) ==
    /\ cached
    /\ other_input # "None"
    /\ Prologue
    /\ other_input' = IF custom_action THEN "None" ELSE other_input
    /\ nmsg' = Messages
    /\ NoSearch
    /\ UNCHANGED email_input

\* a prompt from the chat input: lines 115-141. The completion call is outside
\* any try: when it raises, the run ends with the user message appended and
\* nothing searched.
RunPrompt(prompt, completes) ==
    /\ cached
    /\ Prologue
    /\ UNCHANGED <<email_input, other_input>>
    /\ IF completes
       THEN /\ nmsg' = Messages + 2
            /\ answered' = answered + 1
            /\ query' = prompt
            /\ k' = AppK
            /\ run' = SearchRun(prompt, records, AppK)
            /\ called' = TRUE
            /\ searches' = searches + 1
       ELSE /\ nmsg' = Messages + 1
            /\ NoSearch

NextApp ==
    \/ RunPlain
    \/ RunEmailBtn
    \/ RunReportBtn
    \/ RunOtherBtn
    \/ \E address \in BOOLEAN : RunSendEmail(address)
    \/ \E custom_action \in BOOLEAN : RunSubmitCustom(custom_action)
    \/ \E prompt \in Prompts, completes \in BOOLEAN : RunPrompt(prompt, completes)

SpecApp == InitApp /\ [][NextApp]_vars

\* ------------------------------------------------ the claims on the matcher
Min(a, b) == IF a < b THEN a ELSE b

StrLeq(a, b) == a = b \/ StrLess(a, b)

NamesOf(recs) == [i \in 1..Len(recs) |-> recs[i].name]

\* the claims' own reading of the score of a name under the last query
Shared(name) == Cardinality(TokenSet(query) \cap TokenSet(name))

FallbackHit(name) == \E t \in TokenSet(query) : IsSubstring(t, Lower(name))

FallbackOnly(name) == Shared(name) = 0 /\ FallbackHit(name)

Score(name) == IF Shared(name) > 0 THEN Shared(name)
               ELSE IF FallbackHit(name) THEN 1 ELSE 0

Matching == {i \in 1..Len(records) : Score(records[i].name) > 0}

\* C1: for a positive k the returned records are ordered by (-overlap, name):
\* of two consecutive ones the first has the greater overlap, or the same
\* overlap and a name that is not greater; the spec's example gives
\* [Invoice_2023.pdf, invoice_draft.txt] for the query "invoice".
C1_Ordered ==
    (called /\ k > 0) =>
        /\ \A i \in 1..(Len(result) - 1) :
              \/ Score(result[i].name) > Score(result[i + 1].name)
              \/ /\ Score(result[i].name) = Score(result[i + 1].name)
                 /\ StrLeq(result[i].name, result[i + 1].name)
        /\ ( /\ query = Q_Invoice
             /\ k >= 2
             /\ Len(records) = 3
             /\ {records[i].name : i \in 1..Len(records)}
                  = {N_Invoice2023, N_InvoiceDraft, N_Report} )
           => NamesOf(result) = <<N_Invoice2023, N_InvoiceDraft>>

C1_Witness ==
    /\ called /\ k = 2 /\ query = Q_Invoice
    /\ NamesOf(records) = <<N_Report, N_InvoiceDraft, N_Invoice2023>>
    /\ NamesOf(result) = <<N_Invoice2023, N_InvoiceDraft>>

\* C2: every entry of `scored` carries the number of shared distinct tokens,
\* or exactly 1 when that number is 0 and a query token is a substring of the
\* lowercased name; only records with a positive overlap are returned, and
\* "inv" brings invoice_final.pdf in through the fallback.
C2_Scoring ==
    called =>
        /\ \A i \in 1..Len(scored) :
              /\ scored[i][1] = Score(scored[i][2].name)
              /\ scored[i][1] > 0
              /\ Shared(scored[i][2].name) = 0 =>
                    (scored[i][1] = 1 /\ FallbackHit(scored[i][2].name))
        /\ \A i \in 1..Len(result) : Score(result[i].name) > 0
        /\ \A i \in 1..Len(records) :
              Score(records[i].name) = 0 =>
                  \A j \in 1..Len(result) : result[j] # records[i]
        /\ (query = Q_Inv /\ k >= Len(records)) =>
              \A i \in 1..Len(records) :
                  records[i].name = N_InvoiceFinal =>
                      \E j \in 1..Len(result) : result[j] = records[i]

C2_Witness ==
    /\ called /\ query = Q_Inv
    /\ \E j \in 1..Len(result) :
          result[j].name = N_InvoiceFinal /\ Shared(result[j].name) = 0
    /\ \E i \in 1..Len(records) :
          Score(records[i].name) = 0 /\ \A j \in 1..Len(result) : result[j] # records[i]

\* C3: for a positive k exactly min(k, m) records are returned, m being the
\* number of records with a positive overlap, and they are the best min(k, m)
\* of them: the head of the sorted list, and no matching record left out
\* sorts before a returned one.
C3_TopK ==
    (called /\ k > 0) =>
        /\ Len(result) = Min(k, Cardinality(Matching))
        /\ \A j \in 1..Len(result) : result[j] = scored[j][2]
        /\ Len(scored) = Cardinality(Matching)
        /\ \A i \in Matching :
              (\A j \in 1..Len(result) : result[j] # records[i]) =>
                  \A j \in 1..Len(result) :
                      \/ Score(result[j].name) > Score(records[i].name)
                      \/ /\ Score(result[j].name) = Score(records[i].name)
                         /\ StrLeq(result[j].name, records[i].name)

C3_Witness ==
    /\ called /\ k = 2 /\ Cardinality(Matching) = 3 /\ Len(result) = 2
    /\ Score(result[1].name) > Score(result[2].name)

\* C4: an empty query, a query without any alphanumeric character, or an
\* empty record list gives an empty result, whatever the other arguments.
C4_EmptyInputs ==
    (called /\ ( \/ query = <<>>
                 \/ \A i \in 1..Len(query) : ~IsAlnum(query[i])
                 \/ records = <<>> ))
        => result = <<>>

\* a blank query with an underscore, against names that contain one
C4_Witness ==
    /\ called /\ query = Q_Blank /\ k > 0 /\ result = <<>>
    /\ Len(records) = 3
    /\ \A i \in 1..Len(records) : IsSubstring(<<95>>, records[i].name)

C9_Claimed ==
    called =>
        \A i, j \in 1..Len(result) :
            (i < j /\ FallbackOnly(result[i].name)) => Shared(result[j].name) = 0

\* C9 as amended: a fallback-only record is never returned before a record
\* that shares two or more tokens with the query; against a record that shares
\* exactly one token it counts the same, and the two are ordered by name.
C9_FallbackRank ==
    called =>
        \A i, j \in 1..Len(result) :
            i < j =>
                /\ FallbackOnly(result[i].name) =>
                      /\ Shared(result[j].name) <= 1
                      /\ Shared(result[j].name) = 1 =>
                            StrLeq(result[i].name, result[j].name)
                /\ (Shared(result[i].name) = 1 /\ FallbackOnly(result[j].name)) =>
                      StrLeq(result[i].name, result[j].name)

\* "Inv Report 2023-pdf": invoice_draft.txt (substring only) is returned before report.csv
C9_Witness ==
    /\ called /\ query = Q_InvReport /\ Len(result) = 2
    /\ result[1].name = N_InvoiceDraft /\ FallbackOnly(result[1].name)
    /\ result[2].name = N_Report /\ Shared(result[2].name) = 1

\* ------------------------------------------------ the claims on the scanner
Scanned == scanOut.status # "none"

\* the paths whose metadata can be read, in sorted order
RECURSIVE Readable(_)
Readable(paths) ==
    IF paths = <<>> THEN <<>>
    ELSE (IF tree[Head(paths)].kind = "file" THEN <<Head(paths)>> ELSE <<>>)
         \o Readable(Tail(paths))

ReadablePaths == Readable(Sorted(Glob(tree)))

\* C5: on an existing root directory the scan returns one record for each
\* file whose metadata can be read, in sorted order; a file whose metadata
\* cannot be read costs its own record and nothing else.
C5_Claimed ==
    (Scanned /\ dirKind[scanOut.root] = "dir") =>
        /\ scanOut.status = "returned"
        /\ Len(scanOut.records) = Len(ReadablePaths)
        /\ \A i \in 1..Len(ReadablePaths) :
              scanOut.records[i].name = EntryName(ReadablePaths[i])

C7_Claimed ==
    scanOut.status = "returned" =>
        \A i, j \in 1..Len(scanOut.records) :
            i # j => scanOut.records[i].path # scanOut.records[j].path

\* ---------------------------------------------------- the claim on the app
\* C10: within one session scan_dummy_data is called at most once, and every
\* prompt that is answered is followed by exactly one search_files call, made
\* with k = 5.
C10_Claimed ==
    /\ scanCalls <= 1
    /\ searches = answered
    /\ called => k = AppK

====
